---- MODULE Spec2Model ----
(***************************************************************************)
(* The max-cut notebook (optimization/max_cut.ipynb) as a state machine:   *)
(* the kernel namespace is the state, every code cell is one action, and   *)
(* the cells run in order.  The routines the cells call (parse_gset_format,*)
(* random_graph, max_cut.get_operator, ExactEigensolver, sample_most_likely,*)
(* max_cut.get_graph_solution, max_cut.max_cut_value) are operators that    *)
(* compute what the called routine computes; the recorded cell outputs of  *)
(* the notebook (weight matrix, energy -20.5, energy + offset -24.0,       *)
(* solution [1 0 1 1], solution objective 24.0) are reproduced by them.    *)
(*                                                                         *)
(* Reals: every energy, coefficient and offset of the notebook is a        *)
(* multiple of 0.5 (get_operator multiplies integer weights by 0.5), so a  *)
(* name ending in 2 holds TWICE the real value (energy2 = -41 is -20.5).   *)
(***************************************************************************)
EXTENDS Integers, Sequences, FiniteSets, TLC

(* ---------------- bounds ---------------- *)
MaxN == 3          \* random_graph draws graphs with 1..MaxN vertices
MaxW == 1          \* ... and integer weights in -MaxW..MaxW
MaxFileN == 2      \* vertex count declared by a sample.maxcut header
MaxLines == 2      \* edge lines (and declared edge count) of a sample.maxcut
MaxAmp == 2        \* largest amplitude magnitude in a VQE state vector

VARIABLES pc, err, names, gset, rng, vqeOut,
          w, qubitOp, offset2, result, x, cplex_installed, stdout

vars == <<pc, err, names, gset, rng, vqeOut,
          w, qubitOp, offset2, result, x, cplex_installed, stdout>>

(* ---------------- arithmetic helpers ---------------- *)
Nodes(n) == 0 .. (n - 1)

RECURSIVE Pow2(_)
Pow2(n) == IF n = 0 THEN 1 ELSE 2 * Pow2(n - 1)

RECURSIVE Sum(_, _)
Sum(f, S) ==
  IF S = {} THEN 0
  ELSE LET e == CHOOSE e \in S : TRUE IN f[e] + Sum(f, S \ {e})

Pairs(n) == Nodes(n) \X Nodes(n)

Matrix(n, entries) == [shape |-> n, at |-> [p \in Pairs(n) |-> entries[p]]]

Empty == [i \in {} |-> 0]

NoGraph == [shape |-> 0, at |-> Empty]

(* ---------------- graphs ---------------- *)
\* the matrix printed by the random_graph cell: seed 8123179, n = 4
SampleW ==
  LET rows == << <<0, 8, -9, 0>>, <<8, 0, 7, 9>>, <<-9, 7, 0, -8>>, <<0, 9, -8, 0>> >>
  IN  Matrix(4, [p \in Pairs(4) |-> rows[p[1] + 1][p[2] + 1]])

UpperPairs(n) == {p \in Pairs(n) : p[1] < p[2]}

\* random_graph: w[i, j] is drawn for i < j only, then w += w.T
random_graph(n, drawn) ==
  LET upper(i, j) == IF i < j THEN drawn[<<i, j>>] ELSE 0
  IN  Matrix(n, [p \in Pairs(n) |-> upper(p[1], p[2]) + upper(p[2], p[1])])

\* what the generator can yield: every draw within the bounds, and the
\* draw the notebook recorded
RandomGraphs ==
  {SampleW}
    \cup UNION {{random_graph(n, d) : d \in [UpperPairs(n) -> (-MaxW) .. MaxW]} : n \in 1 .. MaxN}

(* ---------------- sample.maxcut ---------------- *)
\* weights on the edge lines: a negative and a positive one
FileWeights == {-1, 2}

\* edge lines of a file declaring n vertices: indices 0 .. n+1 cover the
\* 1-based range and one index beyond it on either side
EdgeLines(n) == [s : 0 .. (n + 1), t : 0 .. (n + 1), x : FileWeights]

RECURSIVE SeqsUpTo(_, _)
SeqsUpTo(S, k) ==
  IF k = 0 THEN {<<>>}
  ELSE LET shorter == SeqsUpTo(S, k - 1)
       IN  shorter \cup {Append(q, e) : q \in {r \in shorter : Len(r) = k - 1}, e \in S}

GsetFiles ==
  UNION {[n : {n}, m : 0 .. MaxLines, lines : SeqsUpTo(EdgeLines(n), MaxLines)] : n \in 0 .. MaxFileN}

SampleFile == [n |-> 2, m |-> 1, lines |-> <<[s |-> 1, t |-> 2, x |-> 1]>>]

\* numpy indexing of an axis of length n: -n .. n-1 are valid, negatives wrap
InBounds(idx, n) == (0 - n) <= idx /\ idx < n

NumpyIndex(idx, n) == IF idx < 0 THEN idx + n ELSE idx

\* the loop over the edge lines: s -= 1; t -= 1; w[s, t] = x; count += 1
RECURSIVE ReadEdges(_, _, _)
ReadEdges(lines, a, n) ==
  IF lines = <<>> THEN [error |-> "", at |-> a]
  ELSE LET s == Head(lines).s - 1
           t == Head(lines).t - 1
       IN  IF ~InBounds(s, n) \/ ~InBounds(t, n)
           THEN [error |-> "IndexError", at |-> a]
           ELSE ReadEdges(Tail(lines),
                          [a EXCEPT ![<<NumpyIndex(s, n), NumpyIndex(t, n)>>] = Head(lines).x],
                          n)

\* parse_gset_format: header n m, the edge loop, assert m == count, w += w.T
parse_gset_format(file) ==
  LET n == file.n
      r == ReadEdges(file.lines, [p \in Pairs(n) |-> 0], n)
  IN  IF r.error # "" THEN [error |-> r.error, w |-> NoGraph]
      ELSE IF file.m # Len(file.lines) THEN [error |-> "AssertionError", w |-> NoGraph]
      ELSE [error |-> "", w |-> Matrix(n, [p \in Pairs(n) |-> r.at[p] + r.at[<<p[2], p[1]>>]])]

(* ---------------- max_cut ---------------- *)
\* get_operator with the sign of the coefficients flipped: -0.5 * w[i, j]
get_operator_negated(wm) ==
  LET n == wm.shape
      lower == {p \in Pairs(n) : p[2] < p[1] /\ wm.at[p] # 0}
  IN  [qubitOp |-> [num_qubits |-> n,
                    paulis |-> {[i |-> p[1], j |-> p[2], coef2 |-> 0 - wm.at[p]] : p \in lower}],
       offset2 |-> 0 - Sum([p \in lower |-> wm.at[p]], lower)]

\* get_operator with the shift accumulated over both (i, j) and (j, i)
get_operator_all_pairs(wm) ==
  LET n == wm.shape
      lower == {p \in Pairs(n) : p[2] < p[1] /\ wm.at[p] # 0}
      both == {p \in Pairs(n) : p[2] # p[1] /\ wm.at[p] # 0}
  IN  [qubitOp |-> [num_qubits |-> n,
                    paulis |-> {[i |-> p[1], j |-> p[2], coef2 |-> wm.at[p]] : p \in lower}],
       offset2 |-> 0 - Sum([p \in both |-> wm.at[p]], both)]

\* get_operator: for i in range(n), for j in range(i), if w[i, j] != 0:
\* a term 0.5 * w[i, j] * Z_i Z_j, and shift -= 0.5 * w[i, j]
get_operator(wm) ==
  LET n == wm.shape
      lower == {p \in Pairs(n) : p[2] < p[1] /\ wm.at[p] # 0}
  IN  [qubitOp |-> [num_qubits |-> n,
                    paulis |-> {[i |-> p[1], j |-> p[2], coef2 |-> wm.at[p]] : p \in lower}],
       offset2 |-> 0 - Sum([p \in lower |-> wm.at[p]], lower)]

\* max_cut_value with np.outer(x, x): the weight inside one side, not across
max_cut_value_inner(xs, wm) ==
  Sum([p \in Pairs(wm.shape) |-> wm.at[p] * xs[p[1]] * xs[p[2]]], Pairs(wm.shape))

\* max_cut_value summed over the upper triangle only
max_cut_value_upper(xs, wm) ==
  Sum([p \in UpperPairs(wm.shape) |-> wm.at[p] * xs[p[1]] * (1 - xs[p[2]])],
      UpperPairs(wm.shape))

\* max_cut_value: X = np.outer(x, 1 - x); np.sum(w * X)
max_cut_value(xs, wm) ==
  Sum([p \in Pairs(wm.shape) |-> wm.at[p] * xs[p[1]] * (1 - xs[p[2]])], Pairs(wm.shape))

\* get_graph_solution: 1 - x
get_graph_solution(xs) == [i \in DOMAIN xs |-> 1 - xs[i]]

(* ---------------- solvers and decoding ---------------- *)
Bit(k, i) == (k \div Pow2(i)) % 2

\* eigenvalue of Z_i on basis state k
Z(k, i) == 1 - 2 * Bit(k, i)

\* twice the diagonal entry of the operator's matrix at basis state k
Diagonal2(op, k) == Sum([p \in op.paulis |-> p.coef2 * Z(k, p.i) * Z(k, p.j)], op.paulis)

\* argsort that puts the last of equal entries first
RECURSIVE ArgMinFrom_last(_, _, _, _)
ArgMinFrom_last(d, k, last, best) ==
  IF k > last THEN best
  ELSE ArgMinFrom_last(d, k + 1, last, IF d[k] <= d[best] THEN k ELSE best)

\* first index of argsort over the diagonal
RECURSIVE ArgMinFrom(_, _, _, _)
ArgMinFrom(d, k, last, best) ==
  IF k > last THEN best
  ELSE ArgMinFrom(d, k + 1, last, IF d[k] < d[best] THEN k ELSE best)

\* an eigensolver that returns the largest eigenvalue
ExactEigensolver_max(op) ==
  LET last == Pow2(op.num_qubits) - 1
      d == [k \in 0 .. last |-> Diagonal2(op, k)]
      k0 == CHOOSE k \in 0 .. last :
              /\ \A j \in 0 .. last : d[j] <= d[k]
              /\ \A j \in 0 .. (k - 1) : d[j] < d[k]
  IN  [energy2 |-> d[k0], eigvec |-> [k \in 0 .. last |-> IF k = k0 THEN 1 ELSE 0]]

\* ExactEigensolver(qubitOp).run(): lowest eigenvalue and its eigenvector
ExactEigensolver(op) ==
  LET last == Pow2(op.num_qubits) - 1
      d == [k \in 0 .. last |-> Diagonal2(op, k)]
      k0 == ArgMinFrom(d, 1, last, 0)
  IN  [energy2 |-> d[k0], eigvec |-> [k \in 0 .. last |-> IF k = k0 THEN 1 ELSE 0]]

\* np.argmax(np.abs(state_vector)): first index of the maximum
RECURSIVE ArgMaxFrom(_, _, _, _)
ArgMaxFrom(v, k, last, best) ==
  IF k > last THEN best
  ELSE ArgMaxFrom(v, k + 1, last, IF v[k] > v[best] THEN k ELSE best)

RECURSIVE Log2(_)
Log2(len) == IF len <= 1 THEN 0 ELSE 1 + Log2(len \div 2)

\* the decoding loop filling x from its last entry: most-significant bit at x[0]
RECURSIVE ShiftOut_msb(_, _, _, _)
ShiftOut_msb(k, i, n, xs) ==
  IF i = n THEN xs
  ELSE ShiftOut_msb(k \div 2, i + 1, n, [xs EXCEPT ![n - 1 - i] = k % 2])

\* the loop for i in range(n): x[i] = k % 2; k >>= 1
RECURSIVE ShiftOut(_, _, _, _)
ShiftOut(k, i, n, xs) ==
  IF i = n THEN xs
  ELSE ShiftOut(k \div 2, i + 1, n, [xs EXCEPT ![i] = k % 2])

\* sample_most_likely on a state vector
sample_most_likely(state_vector) ==
  LET len == Cardinality(DOMAIN state_vector)
      n == Log2(len)
      k == ArgMaxFrom(state_vector, 1, len - 1, 0)
  IN  ShiftOut(k, 0, n, [i \in Nodes(n) |-> 0])

\* state vectors a VQE run can return (magnitudes of the amplitudes): up to
\* two basis states carry weight
StateVectors(n) ==
  {[k \in 0 .. (Pow2(n) - 1) |-> IF k = a THEN p ELSE IF k = b THEN q ELSE 0] :
      a \in 0 .. (Pow2(n) - 1), b \in 0 .. (Pow2(n) - 1), p \in 1 .. MaxAmp, q \in 0 .. MaxAmp}

(* ---------------- the notebook ---------------- *)
NoError == [cell |-> 0, name |-> ""]

Raise(cell, name) == pc' = "error" /\ err' = [cell |-> cell, name |-> name]

\* the graph the generator yields while the contents of sample.maxcut vary
SmallGraph == random_graph(2, [p \in UpperPairs(2) |-> 1])

\* one graph of every size, on which every state vector is decoded
DecodeGraphs == {SampleW} \cup {random_graph(n, [p \in UpperPairs(n) |-> 1]) : n \in 1 .. MaxN}

\* the state vector of a VQE run that converged to the exact ground state
Converged(g) == ExactEigensolver(get_operator(g).qubitOp).eigvec

Init ==
  /\ pc = "cell1"
  /\ err = NoError
  /\ names = {}
  /\ \/ gset \in GsetFiles /\ rng = SmallGraph /\ vqeOut = Converged(rng)
     \/ gset = SampleFile /\ rng \in RandomGraphs /\ vqeOut = Converged(rng)
     \/ gset = SampleFile /\ rng \in DecodeGraphs /\ vqeOut \in StateVectors(rng.shape)
  /\ w = NoGraph
  /\ qubitOp = [num_qubits |-> 0, paulis |-> {}]
  /\ offset2 = 0
  /\ result = [energy2 |-> 0, eigvec |-> Empty]
  /\ x = Empty
  /\ cplex_installed = FALSE
  /\ stdout = [cell |-> 0]

\* In [1]: the imports
Cell1 ==
  /\ pc = "cell1"
  /\ pc' = "cell2"
  /\ names' = names \cup {"np", "BasicAer", "max_cut", "QuantumInstance", "ExactEigensolver",
                          "VQE", "L_BFGS_B", "RYRZ", "parse_gset_format", "random_graph",
                          "sample_most_likely"}
  /\ UNCHANGED <<err, gset, rng, vqeOut, w, qubitOp, offset2, result, x,
                 cplex_installed, stdout>>

\* In [2]: w = parse_gset_format('sample.maxcut'); qubitOp, offset = max_cut.get_operator(w)
Cell2 ==
  /\ pc = "cell2"
  /\ LET parsed == parse_gset_format(gset)
         op == get_operator(parsed.w)
     IN  IF parsed.error # ""
         THEN /\ Raise(2, parsed.error)
              /\ UNCHANGED <<names, w, qubitOp, offset2>>
         ELSE /\ pc' = "cell3"
              /\ w' = parsed.w
              /\ qubitOp' = op.qubitOp
              /\ offset2' = op.offset2
              /\ names' = names \cup {"w", "qubitOp", "offset"}
              /\ UNCHANGED err
  /\ UNCHANGED <<gset, rng, vqeOut, result, x, cplex_installed, stdout>>

\* In [3]: w = random_graph(4, edge_prob=0.5, weight_range=10); get_operator; print(w)
Cell3 ==
  /\ pc = "cell3"
  /\ pc' = "cell4"
  /\ w' = rng
  /\ qubitOp' = get_operator(rng).qubitOp
  /\ offset2' = get_operator(rng).offset2
  /\ names' = names \cup {"w", "qubitOp", "offset"}
  /\ stdout' = [cell |-> 3, w |-> rng]
  /\ UNCHANGED <<err, gset, rng, vqeOut, result, x, cplex_installed>>

\* In [4]: to_be_tested_algos = [...]; print(to_be_tested_algos)
Cell4 ==
  /\ pc = "cell4"
  /\ pc' = "cell5"
  /\ names' = names \cup {"to_be_tested_algos"}
  /\ stdout' = [cell |-> 4, algos |-> <<"ExactEigensolver", "CPLEX.Ising", "VQE">>]
  /\ UNCHANGED <<err, gset, rng, vqeOut, w, qubitOp, offset2, result, x,
                 cplex_installed>>

\* the four report lines: energy, max-cut objective, solution, solution objective
Report(cell, res, xs, off2, wm) ==
  [cell |-> cell,
   energy2 |-> res.energy2,
   objective2 |-> res.energy2 + off2,
   solution |-> get_graph_solution(xs),
   solution_objective |-> max_cut_value(xs, wm)]

\* In [5]: result = ExactEigensolver(qubitOp).run(); x = sample_most_likely(...); prints
Cell5 ==
  /\ pc = "cell5"
  /\ pc' = "cell6"
  /\ result' = ExactEigensolver(qubitOp)
  /\ x' = sample_most_likely(result'.eigvec)
  /\ names' = names \cup {"result", "x"}
  /\ stdout' = Report(5, result', x', offset2, w)
  /\ UNCHANGED <<err, gset, rng, vqeOut, w, qubitOp, offset2, cplex_installed>>

\* In [6], the import raises: cplex_installed = False and the solve is skipped
Cell6ImportRaises ==
  /\ pc = "cell6"
  /\ pc' = "cell7"
  /\ cplex_installed' = FALSE
  /\ names' = names \cup {"cplex_installed", "e"}
  /\ UNCHANGED <<err, gset, rng, vqeOut, w, qubitOp, offset2, result, x, stdout>>

\* In [6], the import succeeds: result = CPLEX_Ising(qubit_op, display=0).run(); ...
\* The argument is the name qubit_op, which no cell binds (In [2] and In [3]
\* bind qubitOp).
Cell6ImportSucceeds ==
  /\ pc = "cell6"
  /\ cplex_installed' = TRUE
  /\ IF "qubit_op" \notin names
     THEN /\ Raise(6, "NameError")
          /\ names' = names \cup {"cplex_installed", "CPLEX_Ising"}
          /\ UNCHANGED <<result, x, stdout>>
     ELSE /\ pc' = "cell7"
          /\ \E sol \in [Nodes(qubitOp.num_qubits) -> {0, 1}] :
               /\ result' = [energy2 |-> 0 - 2 * max_cut_value(sol, w) - offset2, x_sol |-> sol]
               /\ x' = sol
               /\ stdout' = Report(6, result', sol, offset2, w)
          /\ names' = names \cup {"cplex_installed", "CPLEX_Ising", "result", "x_dict", "x"}
          /\ UNCHANGED err
  /\ UNCHANGED <<gset, rng, vqeOut, w, qubitOp, offset2>>

\* In [7]: vqe = VQE(qubitOp, ...); result = vqe.run(...); x = sample_most_likely(...)
Cell7 ==
  /\ pc = "cell7"
  /\ pc' = "done"
  /\ \E e \in {Diagonal2(qubitOp, k) : k \in {j \in DOMAIN vqeOut : vqeOut[j] > 0}} :
       result' = [energy2 |-> e, eigvec |-> vqeOut]
  /\ x' = sample_most_likely(result'.eigvec)
  /\ names' = names \cup {"vqe", "result", "x"}
  /\ stdout' = Report(7, result', x', offset2, w)
  /\ UNCHANGED <<err, gset, rng, vqeOut, w, qubitOp, offset2, cplex_installed>>

Next ==
  \/ Cell1
  \/ Cell2
  \/ Cell3
  \/ Cell4
  \/ Cell5
  \/ Cell6ImportRaises
  \/ Cell6ImportSucceeds
  \/ Cell7

Spec == Init /\ [][Next]_vars

(* ---------------- properties ---------------- *)
\* the state right after In [5]: result and x are the exact solver's
AfterExact == pc = "cell6"

\* the states right after In [2] and In [3]: w, qubitOp and offset are newly bound
OperatorBuilt == pc \in {"cell3", "cell4"}

Assignments(n) == [Nodes(n) -> {0, 1}]

Complement(xs) == [i \in DOMAIN xs |-> 1 - xs[i]]

\* spins of a 0/1 assignment: z_i = 1 - 2 * x_i
Spin(xs) == [i \in DOMAIN xs |-> 1 - 2 * xs[i]]

\* index of the bit pattern of an assignment, bit i being vertex i
Index(xs) == Sum([i \in DOMAIN xs |-> xs[i] * Pow2(i)], DOMAIN xs)

\* twice the coefficient J[i][j] of the Ising model held by an operator
J2(op, i, j) ==
  LET terms == {p \in op.paulis : {p.i, p.j} = {i, j}}
  IN  Sum([p \in terms |-> p.coef2], terms)

\* twice cost(z) = sum over i < j of J[i][j] * z_i * z_j
Cost2(op, z) ==
  Sum([p \in UpperPairs(op.num_qubits) |-> J2(op, p[1], p[2]) * z[p[1]] * z[p[2]]],
      UpperPairs(op.num_qubits))

IsMinCost2(op, c) ==
  /\ \E y \in Assignments(op.num_qubits) : Cost2(op, Spin(y)) = c
  /\ \A y \in Assignments(op.num_qubits) : c <= Cost2(op, Spin(y))

SumUpper(wm) == Sum([p \in UpperPairs(wm.shape) |-> wm.at[p]], UpperPairs(wm.shape))

IsWeightedGraph(wm) ==
  /\ \A p \in Pairs(wm.shape) : wm.at[p] = wm.at[<<p[2], p[1]>>]
  /\ \A i \in Nodes(wm.shape) : wm.at[<<i, i>>] = 0

IsMaxCut(xs, wm) == \A y \in Assignments(wm.shape) : max_cut_value(y, wm) <= max_cut_value(xs, wm)

C2_Original ==
  AfterExact =>
    /\ \A p \in UpperPairs(w.shape) : 2 * J2(qubitOp, p[1], p[2]) = 0 - w.at[p]
    /\ IsMaxCut(x, w)

\* C2 amended: the reduction produces the coefficient J[i][j] = +w[i][j]/2 for
\* every pair i < j, and the exact solver's assignment has a cut value greater
\* than or equal to that of every other 0/1 assignment.
C2_MaxCut ==
  AfterExact =>
    /\ \A p \in UpperPairs(w.shape) : J2(qubitOp, p[1], p[2]) = w.at[p]
    /\ IsMaxCut(x, w)

\* C2 witness: the solved graph has positive and negative cuts to tell apart
C2_Witness ==
  /\ AfterExact
  /\ \E y \in Assignments(w.shape) : max_cut_value(y, w) < 0
  /\ max_cut_value(x, w) > 0

\* C3: round trip: -(energy + offset) of the exact solver equals the cut value
\* of the decoded assignment on the original graph.
C3_RoundTrip ==
  AfterExact => 0 - (result.energy2 + offset2) = 2 * max_cut_value(x, w)

\* C3 witness: a round trip through a graph whose maximum cut is not zero and
\* whose offset is not zero
C3_Witness ==
  /\ AfterExact
  /\ offset2 # 0
  /\ max_cut_value(x, w) > 0
  /\ w.shape >= 3

\* C4 as stated: the sum of w[i][j] over i < j equals twice the offset.
C4_Original ==
  (OperatorBuilt /\ IsWeightedGraph(w)) => SumUpper(w) = offset2

\* C4 amended: the sum of w[i][j] over i < j equals MINUS twice the offset:
\* offset = -(1/2) * sum over i < j of w[i][j].
C4_Offset ==
  (OperatorBuilt /\ IsWeightedGraph(w)) => SumUpper(w) = 0 - offset2

\* C4 witness: an operator was built from a graph whose weights do not sum to 0
C4_Witness ==
  /\ OperatorBuilt
  /\ IsWeightedGraph(w)
  /\ SumUpper(w) # 0
  /\ w.shape >= 3

Solution1011 == [i \in Nodes(4) |-> IF i = 1 THEN 0 ELSE 1]

\* C5 as stated: the recorded graph yields energy -20.5, offset 4.5, max-cut
\* objective 24.0 and a solution [1,0,1,1] (or its complement) of cut value 24.
C5_Original ==
  (AfterExact /\ w = SampleW) =>
    /\ result.energy2 = -41
    /\ offset2 = 9
    /\ stdout.objective2 = 48
    /\ stdout.solution_objective = 24
    /\ max_cut_value(x, w) = 24
    /\ x \in {Solution1011, Complement(Solution1011)}

\* C5 amended: the recorded graph yields energy -20.5, offset -3.5, a reported
\* max-cut objective energy + offset = -24.0 (24.0 once negated), and the
\* decoded assignment [0,1,0,0], shown as the solution [1,0,1,1], of cut
\* value 24.
C5_Scenario ==
  (AfterExact /\ w = SampleW) =>
    /\ result.energy2 = -41
    /\ offset2 = -7
    /\ stdout.objective2 = -48
    /\ 0 - (result.energy2 + offset2) = 48
    /\ stdout.solution = Solution1011
    /\ stdout.solution_objective = 24
    /\ max_cut_value(x, w) = 24
    /\ x = Complement(Solution1011)

\* C5 witness: the exact solver has run on the recorded graph
C5_Witness == AfterExact /\ w = SampleW /\ stdout.cell = 5

\* C6: a 0/1 assignment and its complement have the same cut value on every
\* weighted graph.
C6_ComplementSymmetry ==
  OperatorBuilt =>
    \A y \in Assignments(w.shape) : max_cut_value(y, w) = max_cut_value(Complement(y), w)

\* C6 witness: a graph with an assignment of non-zero cut value whose complement
\* is a different assignment
C6_Witness ==
  /\ OperatorBuilt
  /\ w.shape >= 3
  /\ \E y \in Assignments(w.shape) : max_cut_value(y, w) # 0 /\ Complement(y) # y

\* the smallest index of maximal weight in a vector
IsFirstMax(v, k) ==
  /\ \A j \in DOMAIN v : v[j] <= v[k]
  /\ \A j \in DOMAIN v : j < k => v[j] < v[k]

Decoded == pc \in {"cell6", "done"}

C9_NoUnhandledError == ~(pc = "error" /\ err.cell = 6)

====
